---------------------------- MODULE Spec2Model ----------------------------
(***************************************************************************)
(* Model of scripts/ollama-api.py: an OpenAI-compatible HTTP front for an  *)
(* Ollama backend.  One inbound request is followed from its arrival to    *)
(* the end of its response: the four handlers (health, list_models,       *)
(* chat_completions, completions) and the two streaming generators        *)
(* (stream_chat_response, stream_completion_response).                    *)
(*                                                                         *)
(* Values.  JSON objects are records.  A key that may be missing is kept   *)
(* as the string Absent; an Optional[int] is a record [some, val].         *)
(* Floats (temperature) are tenths.  `created` (the wall clock) is left    *)
(* out of every body: nothing in the program reads it back.                *)
(***************************************************************************)
EXTENDS Integers, Sequences, FiniteSets, TLC

\* ------------------------------------------------------------------ bounds
\* Longest backend stream followed, in lines.
MaxLines == 3
\* Largest token counter the backend reports.
MaxCount == 5
\* Longest model listing the backend returns.
MaxModels == 2
\* Largest max_tokens a request carries.
MaxTokens == 1

\* ------------------------------------------------------------------ values
Absent == "<absent>"

None == [some |-> FALSE, val |-> 0]

Some(n) == [some |-> TRUE, val |-> n]

\* Python truthiness of an Optional[int]: None and 0 are falsy.
Truthy(opt) == opt.some /\ opt.val # 0

\* dict.get(key, 0) on a counter that may be missing.
GetCount(opt) == IF opt.some THEN opt.val ELSE 0

DEFAULT_MODEL == "qwen2.5:7b"

Models == {DEFAULT_MODEL}

\* temperature, in tenths: 0.0 and the default 0.7
Temperatures == {0, 7}

OptTokens == {None} \cup {Some(n) : n \in -1..MaxTokens}

OptCounts == {None} \cup {Some(n) : n \in 0..MaxCount}

Contents == {"", "Hi", "Yo"}

MessageLists == {<<[role |-> "user", content |-> "Hi"]>>}

Prompts == {"Hi"}

\* uuid.uuid4().hex[:8]
Uuids == {"0a1b2c3d", "4e5f6071"}

ChatCompletionRequest ==
    [model : Models, messages : MessageLists, temperature : Temperatures,
     max_tokens : OptTokens, stream : BOOLEAN]

CompletionRequest ==
    [model : Models, prompt : Prompts, temperature : Temperatures,
     max_tokens : OptTokens, stream : BOOLEAN]

\* --------------------------------------------------- request translation
\* Mutant: the key is set whenever max_tokens is not None (0 included).
options_SetWhenNotNone(request) ==
    IF request.max_tokens.some
    THEN [temperature |-> request.temperature,
          num_predict |-> request.max_tokens.val]
    ELSE [temperature |-> request.temperature]

\* "options" of ollama_request: temperature, and num_predict under
\* `if request.max_tokens:`.
options(request) ==
    IF Truthy(request.max_tokens)
    THEN [temperature |-> request.temperature,
          num_predict |-> request.max_tokens.val]
    ELSE [temperature |-> request.temperature]

chat_ollama_request(request) ==
    [model    |-> request.model,
     messages |-> [i \in DOMAIN request.messages |->
                     [role    |-> request.messages[i].role,
                      content |-> request.messages[i].content]],
     stream   |-> request.stream,
     options  |-> options(request)]

completion_ollama_request(request) ==
    [model   |-> request.model,
     prompt  |-> request.prompt,
     stream  |-> request.stream,
     options |-> options(request)]

\* ------------------------------------------------------- backend replies
\* What the backend does with one call: the connection fails (refused or
\* timed out), or it answers with a status and a body.
Statuses == {200, 500}

Refused == [kind |-> "refused"]

\* GET /api/tags.  An entry of "models" is its name, or Absent when the
\* entry has no "name" key; has_models tells whether the body has the key.
ModelNames == {"llama3", "qwen2.5:7b"}

ModelEntries == ModelNames \cup {Absent}

ModelLists == UNION {[1..n -> ModelEntries] : n \in 0..MaxModels}

TagsReplies ==
    {Refused}
    \cup [kind : {"reply"}, status : Statuses, json : {FALSE},
          has_models : {FALSE}, models : {<< >>}]
    \cup [kind : {"reply"}, status : Statuses, json : {TRUE},
          has_models : {FALSE}, models : {<< >>}]
    \cup [kind : {"reply"}, status : Statuses, json : {TRUE},
          has_models : {TRUE}, models : ModelLists]

\* POST /api/chat, stream false.  message is Absent (no key) or "object";
\* content is message.content.
ChatReplies ==
    {Refused}
    \cup [kind : {"reply"}, status : Statuses, json : {FALSE},
          message : {Absent}, content : {Absent},
          prompt_eval_count : {None}, eval_count : {None}]
    \cup [kind : {"reply"}, status : Statuses, json : {TRUE},
          message : {Absent}, content : {Absent},
          prompt_eval_count : OptCounts, eval_count : OptCounts]
    \cup [kind : {"reply"}, status : Statuses, json : {TRUE},
          message : {"object"}, content : Contents \cup {Absent},
          prompt_eval_count : OptCounts, eval_count : OptCounts]

\* POST /api/generate, stream false.
GenerateReplies ==
    {Refused}
    \cup [kind : {"reply"}, status : Statuses, json : {FALSE},
          response : {Absent},
          prompt_eval_count : {None}, eval_count : {None}]
    \cup [kind : {"reply"}, status : Statuses, json : {TRUE},
          response : Contents \cup {Absent},
          prompt_eval_count : OptCounts, eval_count : OptCounts]


\* ------------------------------------------------------- HTTP responses
\* HTTPException(status_code, detail).  The detail is str(e), kept as the
\* exception it comes from, after the prefix health() puts before it.
HTTPException(status_code, prefix, error) ==
    [status |-> status_code, kind |-> "error",
     detail |-> [prefix |-> prefix, error |-> error]]

\* A handler that returns a dict: 200 with that body.
JSONBody(body) == [status |-> 200, kind |-> "json", body |-> body]

\* A handler that falls off its end returns None: 200 with the body null.
NullBody == [status |-> 200, kind |-> "null"]

\* StreamingResponse(generator, media_type="text/event-stream").
StreamingResponse == [status |-> 200, kind |-> "stream"]

\* health(): the body it answers for a backend reply.
health_response(reply) ==
    IF reply.kind = "refused"
    THEN HTTPException(503, "Ollama not available: ", "ConnectError")
    ELSE IF reply.status = 200
         THEN JSONBody([status |-> "healthy", ollama |-> "connected"])
         ELSE NullBody

\* Mutant: the listing is built back to front.
model_list_Reversed(ollama_models) ==
    [i \in 1..Len(ollama_models) |->
       [id       |-> ollama_models[Len(ollama_models) + 1 - i],
        object   |-> "model",
        owned_by |-> "ollama"]]

\* The list comprehension of list_models().
model_list(ollama_models) ==
    [i \in 1..Len(ollama_models) |->
       [id       |-> ollama_models[i],
        object   |-> "model",
        owned_by |-> "ollama"]]

\* list_models(): the body it answers for a backend reply.
list_models_response(reply) ==
    IF reply.kind = "refused"
    THEN HTTPException(500, "", "ConnectError")
    ELSE IF reply.status = 200
         THEN IF ~reply.json
              THEN HTTPException(500, "", "JSONDecodeError")
              ELSE LET ollama_models ==
                         IF reply.has_models THEN reply.models ELSE << >>
                   IN  IF \E i \in 1..Len(ollama_models) :
                              ollama_models[i] = Absent
                       THEN HTTPException(500, "", "KeyError('name')")
                       ELSE JSONBody([object |-> "list",
                                      data   |-> model_list(ollama_models)])
         ELSE NullBody

\* Mutant: total_tokens counts the completion tokens only.
usage_TotalIsCompletion(ollama_response) ==
    [prompt_tokens     |-> GetCount(ollama_response.prompt_eval_count),
     completion_tokens |-> GetCount(ollama_response.eval_count),
     total_tokens      |-> GetCount(ollama_response.eval_count)]

\* "usage" of a non-streaming response.
usage(ollama_response) ==
    [prompt_tokens     |-> GetCount(ollama_response.prompt_eval_count),
     completion_tokens |-> GetCount(ollama_response.eval_count),
     total_tokens      |-> GetCount(ollama_response.prompt_eval_count)
                           + GetCount(ollama_response.eval_count)]

\* Mutant: the content is read with .get, so a reply without "message"
\* is answered with empty content.
chat_response_DefaultContent(req, reply, uuid) ==
    IF reply.kind = "refused"
    THEN HTTPException(500, "", "ConnectError")
    ELSE IF ~reply.json
    THEN HTTPException(500, "", "JSONDecodeError")
    ELSE JSONBody(
           [id      |-> [prefix |-> "chatcmpl-", hex |-> uuid],
            object  |-> "chat.completion",
            model   |-> req.model,
            choices |-> <<[index         |-> 0,
                           message       |-> [role    |-> "assistant",
                                              content |->
                                                IF reply.content = Absent
                                                THEN "" ELSE reply.content],
                           finish_reason |-> "stop"]>>,
            usage   |-> usage(reply)])

\* chat_completions(), stream false: the body it answers.
chat_response(req, reply, uuid) ==
    IF reply.kind = "refused"
    THEN HTTPException(500, "", "ConnectError")
    ELSE IF ~reply.json
    THEN HTTPException(500, "", "JSONDecodeError")
    ELSE IF reply.message = Absent
    THEN HTTPException(500, "", "KeyError('message')")
    ELSE IF reply.content = Absent
    THEN HTTPException(500, "", "KeyError('content')")
    ELSE JSONBody(
           [id      |-> [prefix |-> "chatcmpl-", hex |-> uuid],
            object  |-> "chat.completion",
            model   |-> req.model,
            choices |-> <<[index         |-> 0,
                           message       |-> [role    |-> "assistant",
                                              content |-> reply.content],
                           finish_reason |-> "stop"]>>,
            usage   |-> usage(reply)])

\* completions(), stream false: the body it answers.
completion_response(req, reply, uuid) ==
    IF reply.kind = "refused"
    THEN HTTPException(500, "", "ConnectError")
    ELSE IF ~reply.json
    THEN HTTPException(500, "", "JSONDecodeError")
    ELSE IF reply.response = Absent
    THEN HTTPException(500, "", "KeyError('response')")
    ELSE JSONBody(
           [id      |-> [prefix |-> "cmpl-", hex |-> uuid],
            object  |-> "text_completion",
            model   |-> req.model,
            choices |-> <<[text          |-> reply.response,
                           index         |-> 0,
                           finish_reason |-> "stop"]>>,
            usage   |-> usage(reply)])

\* ------------------------------------------------------ backend streams
\* One line of the backend's streamed body.  kind is what the text is:
\* empty, not JSON at all, a JSON number, a JSON string (one that does not
\* hold the text "message"), or a JSON object.
\* For an object: message is Absent (no key), "string" (a value that is
\* no object) or "object"; content is message.content; response and done
\* are the keys of those names ("false"/"true" for done).
Line(kind, message, content, response, done) ==
    [kind |-> kind, message |-> message, content |-> content,
     response |-> response, done |-> done]

EmptyLine == Line("empty", Absent, Absent, Absent, Absent)

NotJson == Line("notjson", Absent, Absent, Absent, Absent)

JsonNumber == Line("number", Absent, Absent, Absent, Absent)

JsonString == Line("string", Absent, Absent, Absent, Absent)

ChatChunk(message, content, done) ==
    Line("object", message, content, Absent, done)

GenerateChunk(response, done) ==
    Line("object", Absent, Absent, response, done)

\* The lines a streamed /api/chat body is drawn from.
ChatLines ==
    {EmptyLine, NotJson, JsonNumber, JsonString,
     ChatChunk("object", "Hi", "false"),
     ChatChunk("object", "Yo", Absent),
     ChatChunk("object", "", "true"),
     ChatChunk("object", "Yo", "true"),
     ChatChunk("object", Absent, Absent),
     ChatChunk("string", Absent, "true"),
     ChatChunk(Absent, Absent, "true")}

\* The lines a streamed /api/generate body is drawn from.
GenerateLines ==
    {EmptyLine, NotJson, JsonNumber, JsonString,
     GenerateChunk("Hi", "false"),
     GenerateChunk("", "true"),
     GenerateChunk("Yo", "true"),
     GenerateChunk(Absent, "true"),
     GenerateChunk(Absent, Absent)}

\* json.loads(line): JSONDecodeError for text that is no JSON document,
\* the decoded value otherwise.
json_loads(line) ==
    IF line.kind \in {"empty", "notjson"}
    THEN [ok |-> FALSE, value |-> line]
    ELSE [ok |-> TRUE, value |-> line]

\* Mutant: dict.get("done", True): a chunk without the key counts as done.
get_done_DefaultTrue(chunk) == chunk.done # "false"

\* dict.get("done", False), taken as a condition.
get_done(chunk) == chunk.done = "true"

\* --------------------------------------------------------- SSE frames
\* f"data: {json.dumps(chunk)}\n\n": the chunk that is serialised.  content
\* is delta.content of a chat chunk (Absent for the delta {}) and text of
\* a completion chunk; finish_reason is "null" for None.
Frame(id, object, model, content, finish_reason) ==
    [kind |-> "data", id |-> id, object |-> object, model |-> model,
     content |-> content, finish_reason |-> finish_reason]

NoId == [prefix |-> Absent, hex |-> Absent]

\* "data: [DONE]\n\n"
DONE ==
    [kind |-> "sentinel", id |-> NoId, object |-> Absent, model |-> Absent,
     content |-> Absent, finish_reason |-> Absent]

\* What the body of the `async for` does with one line: the frames it
\* yields, in order, and whether it then raises out of the generator.
Yields(frames) == [frames |-> frames, raised |-> FALSE]

Raises == [frames |-> << >>, raised |-> TRUE]

\* Mutant: a line that is no JSON ends the stream.
chat_decode_error_Propagates == Raises

\* `except json.JSONDecodeError: continue` of stream_chat_response.
chat_decode_error == Yields(<< >>)

\* `except json.JSONDecodeError: continue` of stream_completion_response.
completion_decode_error == Yields(<< >>)

\* The chunk yielded under `if content:`.
chat_content_frame(request_id, model, content) ==
    Frame(request_id, "chat.completion.chunk", model, content, "null")

\* Mutant: the sentinel goes out without the final chunk.
chat_done_frames_NoFinal(request_id, model) == <<DONE>>

\* The two yields under `if ollama_chunk.get("done", False):`.
chat_done_frames(request_id, model) ==
    <<Frame(request_id, "chat.completion.chunk", model, Absent, "stop"),
      DONE>>

\* The body of the loop of stream_chat_response for one line.
stream_chat_body(line, request_id, model) ==
    IF line.kind = "empty"
    THEN Yields(<< >>)
    ELSE IF ~json_loads(line).ok
    THEN chat_decode_error
    ELSE LET ollama_chunk == json_loads(line).value
         IN  IF ollama_chunk.kind = "number"
             THEN Raises       \* "message" in 5: TypeError
             ELSE IF ollama_chunk.kind = "string"
             THEN Yields(<< >>) \* "message" in "text": False
             ELSE IF ollama_chunk.message = Absent
             THEN Yields(<< >>)
             ELSE IF ollama_chunk.message # "object"
             THEN Raises       \* "text".get: AttributeError
             ELSE LET content == IF ollama_chunk.content = Absent
                                 THEN "" ELSE ollama_chunk.content
                  IN  Yields(
                        (IF content # ""
                         THEN <<chat_content_frame(request_id, model, content)>>
                         ELSE << >>)
                        \o
                        (IF get_done(ollama_chunk)
                         THEN chat_done_frames(request_id, model)
                         ELSE << >>))

\* The chunk yielded under `if text:`.
completion_content_frame(request_id, model, text) ==
    Frame(request_id, "text_completion", model, text, "null")

\* Mutant: the completion generator sends a final chunk as the chat one does.
completion_done_frames_WithFinal ==
    <<Frame(NoId, "text_completion", Absent, Absent, "stop"), DONE>>

\* The yield under `if ollama_chunk.get("done", False):`.
completion_done_frames == <<DONE>>

\* The body of the loop of stream_completion_response for one line.
stream_completion_body(line, request_id, model) ==
    IF line.kind = "empty"
    THEN Yields(<< >>)
    ELSE IF ~json_loads(line).ok
    THEN completion_decode_error
    ELSE LET ollama_chunk == json_loads(line).value
         IN  IF ollama_chunk.kind # "object"
             THEN Raises       \* (5).get, "text".get: AttributeError
             ELSE LET text == IF ollama_chunk.response = Absent
                              THEN "" ELSE ollama_chunk.response
                  IN  Yields(
                        (IF text # ""
                         THEN <<completion_content_frame(request_id, model, text)>>
                         ELSE << >>)
                        \o
                        (IF get_done(ollama_chunk)
                         THEN completion_done_frames
                         ELSE << >>))

stream_body(endpoint, line, request_id, model) ==
    IF endpoint = "chat"
    THEN stream_chat_body(line, request_id, model)
    ELSE stream_completion_body(line, request_id, model)

\* The frames a generator yields over a whole sequence of lines: the loop,
\* left at the first line whose body raises.
RECURSIVE stream_frames(_, _, _, _)
stream_frames(endpoint, lines, request_id, model) ==
    IF lines = << >>
    THEN << >>
    ELSE LET b == stream_body(endpoint, Head(lines), request_id, model)
         IN  IF b.raised
             THEN b.frames
             ELSE b.frames
                  \o stream_frames(endpoint, Tail(lines), request_id, model)

\* ------------------------------------------------------------------ state
VARIABLES
    pc,             \* where the request is: "idle", "done" (the handler
                    \* answered), "created" (the generator is handed to the
                    \* StreamingResponse), "iter" (inside the loop),
                    \* "ended" (the generator returned), "raised",
                    \* "cancelled" (the inbound client went away)
    endpoint,       \* the handler: "health", "models", "chat", "completion"
    request,        \* the inbound request body
    ollama_request, \* the BackendRequest the handler built
    backend,        \* the backend's reply to the handler's call
    response,       \* the HTTP response
    client,         \* the handler's httpx.AsyncClient: "none", "open", "closed"
    request_id,     \* the generator's request_id
    stream,         \* the generator's backend response: "none", "open", "closed"
    lines,          \* the lines read from the backend so far
    yielded,        \* how many frames of the last line read are yielded
    out,            \* the frames yielded so far
    origin,         \* for each frame of out, the index of the line it is from
    calls,          \* how many calls to the backend the request has issued
    failure,        \* what ended the generator: "none", or the exception
    streams         \* two generators running side by side (SpecTwo)

vars == <<pc, endpoint, request, ollama_request, backend, response, client,
          request_id, stream, lines, yielded, out, origin, calls, failure,
          streams>>

handler_vars == <<endpoint, request, ollama_request, backend, response, client>>

Nothing == [kind |-> "nothing"]

\* No generator runs side by side with the request.
NoStreams == << >>

Init ==
    /\ pc = "idle"
    /\ endpoint = "none"
    /\ request = Nothing
    /\ ollama_request = Nothing
    /\ backend = Nothing
    /\ response = Nothing
    /\ client = "none"
    /\ request_id = NoId
    /\ stream = "none"
    /\ lines = << >>
    /\ yielded = 0
    /\ out = << >>
    /\ origin = << >>
    /\ calls = 0
    /\ failure = "none"
    /\ streams = NoStreams

\* ---------------------------------------------------------------- handlers
\* GET /health
health ==
    /\ pc = "idle"
    /\ \E reply \in TagsReplies :
         /\ backend' = reply
         /\ response' = health_response(reply)
    /\ endpoint' = "health"
    /\ client' = "closed"
    /\ pc' = "done"
    /\ calls' = 1
    /\ UNCHANGED <<request, ollama_request, request_id, stream, lines,
                   yielded, out, origin, failure, streams>>

\* GET /v1/models
list_models ==
    /\ pc = "idle"
    /\ \E reply \in TagsReplies :
         /\ backend' = reply
         /\ response' = list_models_response(reply)
    /\ endpoint' = "models"
    /\ client' = "closed"
    /\ pc' = "done"
    /\ calls' = 1
    /\ UNCHANGED <<request, ollama_request, request_id, stream, lines,
                   yielded, out, origin, failure, streams>>

\* POST /v1/chat/completions.  With stream set the handler returns the
\* StreamingResponse from inside `async with`, which closes the client.
chat_completions ==
    /\ pc = "idle"
    /\ \E req \in ChatCompletionRequest :
         /\ request' = req
         /\ ollama_request' = chat_ollama_request(req)
         /\ IF req.stream
            THEN /\ response' = StreamingResponse
                 /\ pc' = "created"
                 /\ UNCHANGED <<backend, calls>>
            ELSE /\ \E reply \in ChatReplies, uuid \in Uuids :
                      /\ backend' = reply
                      /\ response' = chat_response(req, reply, uuid)
                 /\ pc' = "done"
                 /\ calls' = 1
    /\ endpoint' = "chat"
    /\ client' = "closed"
    /\ UNCHANGED <<request_id, stream, lines, yielded, out, origin, failure,
                   streams>>

\* POST /v1/completions
completions ==
    /\ pc = "idle"
    /\ \E req \in CompletionRequest :
         /\ request' = req
         /\ ollama_request' = completion_ollama_request(req)
         /\ IF req.stream
            THEN /\ response' = StreamingResponse
                 /\ pc' = "created"
                 /\ UNCHANGED <<backend, calls>>
            ELSE /\ \E reply \in GenerateReplies, uuid \in Uuids :
                      /\ backend' = reply
                      /\ response' = completion_response(req, reply, uuid)
                 /\ pc' = "done"
                 /\ calls' = 1
    /\ endpoint' = "completion"
    /\ client' = "closed"
    /\ UNCHANGED <<request_id, stream, lines, yielded, out, origin, failure,
                   streams>>

\* -------------------------------------------------------------- generators
\* What `client.stream("POST", ...)` can do.  On a client that is already
\* closed the httpx build decides: it raises RuntimeError, or it sends
\* the request as on an open client.  A request that is sent is refused or
\* connected.
stream_outcomes(c) ==
    IF c = "closed"
    THEN {"RuntimeError", "ConnectError", "connected"}
    ELSE {"ConnectError", "connected"}

\* The lines the backend streams for the endpoint.
backend_lines(e) == IF e = "chat" THEN ChatLines ELSE GenerateLines

\* What the loop body does with the line read last.
current_body ==
    stream_body(endpoint, lines[Len(lines)], request_id, ollama_request.model)

\* Mutant: the next line is taken while frames of this one are pending.
line_finished_Prefetch == TRUE

\* The loop body has yielded every frame of the line read last.
line_finished ==
    IF lines = << >> THEN TRUE ELSE yielded = Len(current_body.frames)

\* The line read last raised out of the loop.
line_raised == IF lines = << >> THEN FALSE ELSE current_body.raised

\* First resumption: request_id is minted and the backend call is opened.
stream_open ==
    /\ pc = "created"
    /\ \E uuid \in Uuids :
         request_id' = [prefix |-> IF endpoint = "chat"
                                   THEN "chatcmpl-" ELSE "cmpl-",
                        hex    |-> uuid]
    /\ \E outcome \in stream_outcomes(client) :
         /\ IF outcome = "connected"
            THEN pc' = "iter" /\ stream' = "open" /\ failure' = "none"
            ELSE pc' = "raised" /\ stream' = "none" /\ failure' = outcome
         /\ calls' = IF outcome = "RuntimeError" THEN calls ELSE calls + 1
    /\ UNCHANGED <<handler_vars, lines, yielded, out, origin, streams>>

\* `async for line in response.aiter_lines()`: the next line arrives.
stream_read ==
    /\ pc = "iter"
    /\ line_finished
    /\ ~line_raised
    /\ Len(lines) < MaxLines
    /\ \E line \in backend_lines(endpoint) : lines' = Append(lines, line)
    /\ yielded' = 0
    /\ UNCHANGED <<pc, handler_vars, request_id, stream, out, origin, calls,
                   failure, streams>>

\* The loop body reaches its next `yield`.
stream_yield ==
    /\ pc = "iter"
    /\ lines # << >>
    /\ yielded < Len(current_body.frames)
    /\ out' = Append(out, current_body.frames[yielded + 1])
    /\ origin' = Append(origin, Len(lines))
    /\ yielded' = yielded + 1
    /\ UNCHANGED <<pc, handler_vars, request_id, stream, lines, calls,
                   failure, streams>>

\* The loop body raises something `except json.JSONDecodeError` lets by.
stream_raise ==
    /\ pc = "iter"
    /\ line_finished
    /\ line_raised
    /\ pc' = "raised"
    /\ stream' = "closed"
    /\ failure' = "TypeError"      \* or AttributeError
    /\ UNCHANGED <<handler_vars, request_id, lines, yielded, out, origin,
                   calls, streams>>

\* The backend closes its body: the loop and the generator end.
stream_end ==
    /\ pc = "iter"
    /\ line_finished
    /\ ~line_raised
    /\ pc' = "ended"
    /\ stream' = "closed"
    /\ UNCHANGED <<handler_vars, request_id, lines, yielded, out, origin,
                   calls, failure, streams>>

\* The backend's body breaks off: aiter_lines raises.
stream_error ==
    /\ pc = "iter"
    /\ line_finished
    /\ ~line_raised
    /\ pc' = "raised"
    /\ stream' = "closed"
    /\ failure' = "ReadError"
    /\ UNCHANGED <<handler_vars, request_id, lines, yielded, out, origin,
                   calls, streams>>

\* Mutant: the generator is dropped where it is suspended and the backend
\* response is never closed.
client_disconnect_Leaks ==
    /\ pc \in {"created", "iter"}
    /\ pc' = "cancelled"
    /\ failure' = "CancelledError"
    /\ UNCHANGED <<handler_vars, request_id, stream, lines, yielded, out,
                   origin, calls, streams>>

\* The inbound client goes away while the response is streamed: the
\* response task is cancelled and the generator is closed where it is
\* suspended (at a yield or waiting for a line), which leaves
\* `async with client.stream(...)` and closes the backend response.
client_disconnect ==
    /\ pc \in {"created", "iter"}
    /\ pc' = "cancelled"
    /\ stream' = IF stream = "open" THEN "closed" ELSE stream
    /\ failure' = "CancelledError"
    /\ UNCHANGED <<handler_vars, request_id, lines, yielded, out, origin,
                   calls, streams>>

Next ==
    \/ health
    \/ list_models
    \/ chat_completions
    \/ completions
    \/ stream_open
    \/ stream_read
    \/ stream_yield
    \/ stream_raise
    \/ stream_end
    \/ stream_error
    \/ client_disconnect

Spec == Init /\ [][Next]_vars

\* ------------------------------------------------------------ properties
\* The frames of out that come from line i, in the order they were yielded.
FramesOfLine(i) ==
    LET S == {j \in DOMAIN out : origin[j] = i}
    IN  [k \in 1..Cardinality(S) |->
           out[CHOOSE j \in S : Cardinality({m \in S : m < j}) = k - 1]]

\* Every line read so far is dealt with: the generator is between lines,
\* or has ended.
AtLineBoundary == pc \in {"iter", "ended", "raised"} /\ line_finished

IsSentinel(frame) == frame.kind = "sentinel"

IsFinal(frame) ==
    /\ frame.kind = "data"
    /\ frame.content = Absent
    /\ frame.finish_reason = "stop"

\* C1: in a streaming call no frame of any kind follows the first
\* `data: [DONE]` frame, whatever lines the backend sends after its done
\* chunk.
C1_NothingAfterDone ==
    \A i \in DOMAIN out : IsSentinel(out[i]) => i = Len(out)

\* C2: in a chat stream every parsed chunk with done == true, with or
\* without a message key, yields exactly one terminal chunk (empty delta,
\* finish_reason "stop") followed at once by the sentinel.  Stated for the
\* chunks whose message is missing or an object.
C2_DoneChunkEndsStream ==
    (endpoint = "chat" /\ AtLineBoundary) =>
      \A i \in DOMAIN lines :
        (/\ lines[i].kind = "object"
         /\ lines[i].done = "true"
         /\ lines[i].message \in {Absent, "object"}) =>
          LET f == FramesOfLine(i)
              n == Len(f)
          IN  /\ n >= 2
              /\ IsFinal(f[n - 1])
              /\ IsSentinel(f[n])
              /\ Cardinality({k \in 1..n : IsFinal(f[k])}) = 1

\* A chat chunk that carries content and is not the last one.
IsContentChunk(line) ==
    /\ line.kind = "object"
    /\ line.message = "object"
    /\ line.content \notin {Absent, ""}
    /\ line.done \in {Absent, "false"}

\* A chat chunk that is the done chunk, with empty content.
IsEmptyDoneChunk(line) ==
    /\ line.kind = "object"
    /\ line.message = "object"
    /\ line.content = ""
    /\ line.done = "true"

\* The lines are n content chunks and then one done chunk.
ContentThenDone ==
    /\ lines # << >>
    /\ IsEmptyDoneChunk(lines[Len(lines)])
    /\ \A i \in 1..(Len(lines) - 1) : IsContentChunk(lines[i])

\* C3: a chat stream of n content chunks followed by one done chunk with
\* empty content yields exactly n + 2 frames: the n content deltas in
\* order (finish_reason null), the terminal frame (empty delta, "stop"),
\* then `data: [DONE]`.
C3_ContentThenDoneFrames ==
    (endpoint = "chat" /\ AtLineBoundary /\ ContentThenDone) =>
      LET n == Len(lines) - 1
      IN  /\ Len(out) = n + 2
          /\ \A i \in 1..n :
               out[i] = [kind |-> "data", id |-> request_id,
                         object |-> "chat.completion.chunk",
                         model |-> request.model,
                         content |-> lines[i].content,
                         finish_reason |-> "null"]
          /\ out[n + 1] = [kind |-> "data", id |-> request_id,
                           object |-> "chat.completion.chunk",
                           model |-> request.model,
                           content |-> Absent,
                           finish_reason |-> "stop"]
          /\ IsSentinel(out[n + 2])

C3_Witness ==
    /\ endpoint = "chat"
    /\ pc = "ended"
    /\ Len(lines) = 3
    /\ ContentThenDone
    /\ lines[1].content = "Hi"
    /\ lines[2].content = "Yo"
    /\ Len(out) = 4
    /\ out[1].content = "Hi"
    /\ out[2].content = "Yo"

\* A line that is not empty and fails json.loads.
Unparsable(line) == line.kind # "empty" /\ ~json_loads(line).ok

Parsable(line) == ~Unparsable(line)

\* C4: in both generators a line that fails JSON parsing yields no frame
\* and does not stop the stream: the frames yielded are those of the same
\* lines with every unparsable line removed, and the generator does not
\* raise on such a line.
C4_UnparsableLinesDropped ==
    /\ AtLineBoundary =>
         out = stream_frames(endpoint, SelectSeq(lines, Parsable),
                             request_id, request.model)
    /\ (pc \in {"iter", "ended", "raised"} /\ lines # << >>
        /\ Unparsable(lines[Len(lines)])) =>
         (~line_raised /\ line_finished)

C4_Witness ==
    /\ pc = "ended"
    /\ Len(lines) = 3
    /\ IsContentChunk(lines[1])
    /\ Unparsable(lines[2])
    /\ IsContentChunk(lines[3])
    /\ Len(out) = 2
    /\ origin = <<1, 3>>

\* C5: frames go out in the order the lines arrive and nothing is held
\* back across lines: the frames of an earlier line all precede those of a
\* later one, and once line i + 1 is read every frame of line i is out.
C5_OrderNoBuffering ==
    /\ \A a, b \in DOMAIN origin : a < b => origin[a] <= origin[b]
    /\ \A i \in 1..(Len(lines) - 1) :
         FramesOfLine(i)
           = stream_body(endpoint, lines[i], request_id, request.model).frames

C5_Witness ==
    /\ pc = "iter"
    /\ Len(lines) = 2
    /\ Len(FramesOfLine(1)) = 3
    /\ Len(FramesOfLine(2)) = 1
    /\ origin = <<1, 1, 1, 2>>

\* C6: for every chat and completion request the backend request's options
\* hold num_predict exactly when max_tokens was given and is not 0, and
\* then with the value of max_tokens; the key is absent otherwise; stream
\* and options.temperature are the request's.
C6_NumPredictIffMaxTokens ==
    endpoint \in {"chat", "completion"} =>
      LET opts == ollama_request.options
          given == request.max_tokens.some /\ request.max_tokens.val # 0
      IN  /\ ("num_predict" \in DOMAIN opts) <=> given
          /\ given => opts.num_predict = request.max_tokens.val
          /\ DOMAIN opts \subseteq {"temperature", "num_predict"}
          /\ opts.temperature = request.temperature
          /\ ollama_request.stream = request.stream

C6_Witness ==
    /\ endpoint = "completion"
    /\ request.max_tokens = Some(MaxTokens)
    /\ request.temperature = 7
    /\ request.stream
    /\ ollama_request.options
         = [temperature |-> 7, num_predict |-> MaxTokens]

\* The backend answered the call with status 200.
BackendOk == backend.kind = "reply" /\ backend.status = 200

\* C7: GET /health answers healthy only when the backend answered
\* /api/tags with 200, and answers 503 with a detail in every other case,
\* a non-200 backend status included.
C7_HealthyOr503 ==
    endpoint = "health" =>
      IF BackendOk
      THEN /\ response.status = 200
           /\ response.kind = "json"
           /\ response.body = [status |-> "healthy", ollama |-> "connected"]
      ELSE /\ response.status = 503
           /\ response.kind = "error"

\* The "models" list of the backend's reply ([] without the key).
BackendModels == IF backend.has_models THEN backend.models ELSE << >>

\* The listing failed: no connection, a non-200 status, a body that is no
\* JSON, or an entry without "name".
ListingFailed ==
    \/ ~BackendOk
    \/ ~backend.json
    \/ \E i \in DOMAIN BackendModels : BackendModels[i] = Absent

\* C8: GET /v1/models answers 500 with a detail on any failure of the
\* backend listing, a non-200 backend status included, and never answers
\* success without the {object: "list", data: [...]} body.
C8_ModelsFailureIs500 ==
    endpoint = "models" =>
      /\ ListingFailed => (response.status = 500 /\ response.kind = "error")
      /\ response.status = 200 =>
           (response.kind = "json" /\ response.body.object = "list")

\* C9: on a 200 backend reply (a JSON body whose entries carry "name")
\* GET /v1/models answers a data list as long as the backend's models
\* list, the i-th id being the i-th name, each entry with object "model"
\* and owned_by "ollama"; without a models key the data list is empty.
C9_ModelsMappedInOrder ==
    (endpoint = "models" /\ ~ListingFailed) =>
      /\ response.status = 200
      /\ response.kind = "json"
      /\ response.body.object = "list"
      /\ Len(response.body.data) = Len(BackendModels)
      /\ \A i \in DOMAIN BackendModels :
           /\ response.body.data[i].id = BackendModels[i]
           /\ response.body.data[i].object = "model"
           /\ response.body.data[i].owned_by = "ollama"
      /\ ~backend.has_models => response.body.data = << >>

C9_Witness ==
    /\ endpoint = "models"
    /\ BackendOk
    /\ backend.json
    /\ backend.has_models
    /\ backend.models = <<"qwen2.5:7b", "llama3">>
    /\ response.kind = "json"
    /\ response.body.data[1].id = "qwen2.5:7b"
    /\ response.body.data[2].id = "llama3"

\* A non-streaming chat or completion call that answered a body.
Answered ==
    /\ endpoint \in {"chat", "completion"}
    /\ pc = "done"
    /\ response.kind = "json"

\* C10: in every non-streaming chat or completion response prompt_tokens
\* is the backend's prompt_eval_count and completion_tokens its
\* eval_count, 0 for a missing counter, total_tokens is their sum, the
\* content of choices[0] is the backend's and finish_reason is "stop".
C10_UsageTotals ==
    Answered =>
      LET u == response.body.usage
          c == response.body.choices[1]
      IN  /\ u.prompt_tokens = IF backend.prompt_eval_count.some
                               THEN backend.prompt_eval_count.val ELSE 0
          /\ u.completion_tokens = IF backend.eval_count.some
                                   THEN backend.eval_count.val ELSE 0
          /\ u.total_tokens = u.prompt_tokens + u.completion_tokens
          /\ Len(response.body.choices) = 1
          /\ c.finish_reason = "stop"
          /\ IF endpoint = "chat"
             THEN c.message.content = backend.content
             ELSE c.text = backend.response

C10_Witness ==
    /\ Answered
    /\ endpoint = "chat"
    /\ backend.prompt_eval_count = Some(3)
    /\ backend.eval_count = Some(5)
    /\ backend.content = "Hi"
    /\ response.body.choices[1].message.content = "Hi"
    /\ response.body.usage.total_tokens = 8

\* A non-streaming chat or completion call whose backend reply is a JSON
\* body without the key the handler reads ("message", "response").
MissingField ==
    /\ endpoint \in {"chat", "completion"}
    /\ pc = "done"
    /\ backend.kind = "reply"
    /\ backend.json
    /\ IF endpoint = "chat"
       THEN backend.message = Absent
       ELSE backend.response = Absent

\* C11: in non-streaming mode a backend response without the `message`
\* key (chat) or the `response` key (completion) never yields an
\* OpenAIResponse: the call is answered 500 with a detail, whatever else
\* the backend response carries.
C11_MissingFieldIs500 ==
    MissingField =>
      /\ response.status = 500
      /\ response.kind = "error"
      /\ response.detail.error
           = IF endpoint = "chat"
             THEN "KeyError('message')" ELSE "KeyError('response')"

C11_Witness ==
    /\ MissingField
    /\ endpoint = "chat"
    /\ backend.status = 200
    /\ backend.prompt_eval_count = Some(3)
    /\ backend.eval_count = Some(5)
    /\ response.status = 500

\* The request is over: the handler answered, or the generator returned,
\* raised or was closed.
Terminal == pc \in {"done", "ended", "raised", "cancelled"}

BackendFailed ==
    \/ pc = "done" /\ backend.kind = "refused"
    \/ MissingField
    \/ pc = "raised" /\ failure = "ConnectError"

\* C13: for every chat and completion request, with stream false or true,
\* a backend that is unreachable or answers without the expected field is
\* not called again (at most one backend call per request) and the
\* failure is answered as HTTP 500 with the error text as detail.
C13_FailureIs500NoRetry ==
    endpoint \in {"chat", "completion"} =>
      /\ calls <= 1
      /\ BackendFailed => (response.status = 500 /\ response.kind = "error")

\* A parsed chunk with done == true.
IsDoneChunk(line) == line.kind = "object" /\ line.done = "true"

\* The content a parsed chunk carries for the endpoint: message.content of
\* a chat chunk, response of a completion chunk, "" when there is none.
ContentOf(line) ==
    IF line.kind # "object"
    THEN ""
    ELSE IF endpoint = "chat"
    THEN IF line.message = "object" /\ line.content # Absent
         THEN line.content ELSE ""
    ELSE IF line.response # Absent THEN line.response ELSE ""

IsContentBearing(line) == ContentOf(line) # ""

\* The content frame of a content-bearing chunk.
ContentFrameOf(line) ==
    [kind |-> "data", id |-> request_id,
     object |-> IF endpoint = "chat"
                THEN "chat.completion.chunk" ELSE "text_completion",
     model |-> request.model,
     content |-> ContentOf(line),
     finish_reason |-> "null"]

\* The backend's body is over (closed, or broken off) and no chunk of it
\* had done == true.
EndedWithoutDone ==
    /\ \/ pc = "ended"
       \/ pc = "raised" /\ failure = "ReadError"
    /\ \A i \in DOMAIN lines : ~IsDoneChunk(lines[i])

\* C15: when the backend stream ends without a chunk with done == true no
\* terminal frame is emitted (no frame with finish_reason "stop", no
\* `data: [DONE]`), and the frames emitted are exactly the content frames
\* of the content-bearing chunks received, in order.
C15_NoTerminalWithoutDone ==
    EndedWithoutDone =>
      LET bearing == SelectSeq(lines, IsContentBearing)
      IN  /\ \A i \in DOMAIN out :
               /\ ~IsSentinel(out[i])
               /\ out[i].finish_reason # "stop"
          /\ out = [i \in 1..Len(bearing) |-> ContentFrameOf(bearing[i])]

C15_Witness ==
    /\ EndedWithoutDone
    /\ pc = "ended"
    /\ endpoint = "chat"
    /\ Len(lines) = 3
    /\ lines[3].done = Absent
    /\ Len(out) = 2
    /\ out[1].content = "Hi"
    /\ out[2].content = "Yo"

\* C16: every parsed chunk yields exactly one content frame, with
\* finish_reason null and the chunk's content (message.content for chat,
\* response for completion), when that content is not empty, and none when
\* it is empty or absent; the content frame of a chunk that is also done
\* precedes its terminal frames; a completion stream never carries a frame
\* with finish_reason "stop".
C16_OneContentFramePerChunk ==
    /\ \A i \in DOMAIN lines :
         (lines[i].kind = "object" /\ (i < Len(lines) \/ AtLineBoundary)) =>
           LET f == FramesOfLine(i)
               content == {k \in DOMAIN f : /\ f[k].kind = "data"
                                            /\ f[k].finish_reason = "null"}
           IN  IF IsContentBearing(lines[i])
               THEN /\ content = {1}
                    /\ f[1] = ContentFrameOf(lines[i])
               ELSE content = {}
    /\ endpoint = "completion" =>
         \A i \in DOMAIN out : out[i].finish_reason # "stop"

C16_Witness ==
    /\ endpoint = "chat"
    /\ AtLineBoundary
    /\ Len(lines) = 1
    /\ IsDoneChunk(lines[1])
    /\ IsContentBearing(lines[1])
    /\ Len(out) = 3
    /\ out[1].content = "Yo"
    /\ out[1].finish_reason = "null"
    /\ IsFinal(out[2])
    /\ IsSentinel(out[3])

\* The step is the generator using the handler's client: it issues its
\* backend request (first resumption), or it reads a line of the reply.
GeneratorUsesClient ==
    \/ pc = "created" /\ pc' \in {"iter", "raised"}
    \/ Len(lines') > Len(lines)

\* C17: in streaming mode the handler's client is open whenever the
\* generator uses it: the client is never closed before the generator has
\* issued its backend request and read the backend's lines.
C17_ClientOpenWhenUsed ==
    [][GeneratorUsesClient => client = "open"]_vars

\* C18: no backend line aborts a stream because of its content: for every
\* non-empty line, JSON values that are no object and chat chunks whose
\* message is no object included, the generator yields frames or skips
\* the line and goes on to the next one; it never raises.
C18_NoLineAborts ==
    /\ lines # << >> =>
         ~stream_body(endpoint, lines[Len(lines)], request_id,
                      request.model).raised
    /\ failure # "TypeError"

\* ------------------------------------------------- two requests at once
\* Two streaming requests whose handlers have returned, their generators
\* resumed in any interleaving (one event loop, one resumption at a time).
\* Each generator is a record of its own locals: endpoint, model (of its
\* ollama_request), request_id, the lines it has read, how many frames of
\* the last line it has yielded, and the frames it has yielded.
MaxTwoLines == 2

Generators == {1, 2}

\* The lines the two backends stream in this specification.
TwoLines(e) ==
    IF e = "chat"
    THEN {NotJson, ChatChunk("object", "Hi", "false"),
          ChatChunk("object", "Yo", "true")}
    ELSE {NotJson, GenerateChunk("Hi", "false"),
          GenerateChunk("Yo", "true")}

\* A generator handed to its StreamingResponse, not yet resumed.
created_generator(e, model) ==
    [pc |-> "created", endpoint |-> e, model |-> model, request_id |-> NoId,
     lines |-> << >>, yielded |-> 0, out |-> << >>]

\* Mutant: request_id is one name shared by the generators, so a body
\* stamps its frames with the id of the other stream.
generator_body_SharedId(ss, r) ==
    LET g == ss[r]
    IN  stream_body(g.endpoint, g.lines[Len(g.lines)],
                    ss[3 - r].request_id, g.model)

\* What the loop body of generator r does with the line it read last: it
\* works on the locals of its own call.
generator_body(ss, r) ==
    LET g == ss[r]
    IN  stream_body(g.endpoint, g.lines[Len(g.lines)], g.request_id, g.model)

generator_finished(ss, r) ==
    IF ss[r].lines = << >>
    THEN TRUE
    ELSE ss[r].yielded = Len(generator_body(ss, r).frames)

generator_raised(ss, r) ==
    IF ss[r].lines = << >> THEN FALSE ELSE generator_body(ss, r).raised

single_vars == <<pc, endpoint, request, ollama_request, backend, response,
                 client, request_id, stream, lines, yielded, out, origin,
                 calls, failure>>

InitTwo ==
    /\ pc = "idle"
    /\ endpoint = "none"
    /\ request = Nothing
    /\ ollama_request = Nothing
    /\ backend = Nothing
    /\ response = Nothing
    /\ client = "none"
    /\ request_id = NoId
    /\ stream = "none"
    /\ lines = << >>
    /\ yielded = 0
    /\ out = << >>
    /\ origin = << >>
    /\ calls = 0
    /\ failure = "none"
    /\ \E e1, e2 \in {"chat", "completion"}, m1, m2 \in Models :
         streams = <<created_generator(e1, m1), created_generator(e2, m2)>>

\* First resumption of generator r.
two_open(r) ==
    /\ streams[r].pc = "created"
    /\ \E uuid \in Uuids, outcome \in stream_outcomes("closed") :
         streams' = [streams EXCEPT
           ![r].request_id = [prefix |-> IF streams[r].endpoint = "chat"
                                         THEN "chatcmpl-" ELSE "cmpl-",
                              hex    |-> uuid],
           ![r].pc = IF outcome = "connected" THEN "iter" ELSE "raised"]
    /\ UNCHANGED single_vars

\* Generator r takes the next line of its own backend reply.
two_read(r) ==
    /\ streams[r].pc = "iter"
    /\ generator_finished(streams, r)
    /\ ~generator_raised(streams, r)
    /\ Len(streams[r].lines) < MaxTwoLines
    /\ \E line \in TwoLines(streams[r].endpoint) :
         streams' = [streams EXCEPT ![r].lines = Append(@, line),
                                    ![r].yielded = 0]
    /\ UNCHANGED single_vars

\* Generator r reaches its next yield.
two_yield(r) ==
    /\ streams[r].pc = "iter"
    /\ streams[r].lines # << >>
    /\ streams[r].yielded < Len(generator_body(streams, r).frames)
    /\ streams' = [streams EXCEPT
         ![r].out = Append(@, generator_body(streams, r)
                                .frames[streams[r].yielded + 1]),
         ![r].yielded = @ + 1]
    /\ UNCHANGED single_vars

\* The backend of generator r closes its body.
two_end(r) ==
    /\ streams[r].pc = "iter"
    /\ generator_finished(streams, r)
    /\ ~generator_raised(streams, r)
    /\ streams' = [streams EXCEPT ![r].pc = "ended"]
    /\ UNCHANGED single_vars

NextTwo ==
    \E r \in Generators :
      \/ two_open(r)
      \/ two_read(r)
      \/ two_yield(r)
      \/ two_end(r)

SpecTwo == InitTwo /\ [][NextTwo]_vars

\* What generator r has yielded is what its own endpoint, lines, id and
\* model give, and every chunk it has yielded carries its own id.
OwnOutput(r) ==
    LET g == streams[r]
    IN  /\ (g.pc \in {"iter", "ended"} /\ generator_finished(streams, r)) =>
             g.out = stream_frames(g.endpoint, g.lines, g.request_id, g.model)
        /\ \A i \in DOMAIN g.out :
             g.out[i].kind = "data" => g.out[i].id = g.request_id

\* C14: concurrent requests are independent: under every interleaving of
\* two streams the frames of a stream are determined by its own input and
\* its own backend lines alone, all its chunks carry the one id minted for
\* it, and a step of one stream leaves the state of the other as it was.
C14_StreamsIndependent ==
    /\ [](\A r \in Generators : OwnOutput(r))
    /\ [][\A r \in Generators :
            streams'[r] # streams[r] => streams'[3 - r] = streams[3 - r]]_vars

C14_Witness ==
    /\ streams[1].pc = "iter"
    /\ streams[2].pc = "iter"
    /\ streams[1].endpoint = "chat"
    /\ streams[2].endpoint = "completion"
    /\ streams[1].request_id.hex # streams[2].request_id.hex
    /\ Len(streams[1].out) = 1
    /\ ~generator_finished(streams, 1)
    /\ Len(streams[2].out) = 2
    /\ streams[2].out[1].id = streams[2].request_id

=============================================================================
